---------------------------- MODULE Spec2Model ----------------------------
(***************************************************************************)
(* A model of the wgpu-experiments tutorial snapshots:                     *)
(*   - camera.rs        Camera::update / Camera::proj_view                 *)
(*   - render_state.rs  RenderState::{new, update, render, resize, size}   *)
(*   - lib.rs           RenderState::{new, render, resize, size} and the   *)
(*                      event-loop callback of run()                       *)
(*                                                                         *)
(* f32 values are modelled exactly on the lattice of multiples of 2^-26:   *)
(* the integer n stands for the real number n * 2^-26.  Every value the    *)
(* camera translation can take (sums of +-speed and the initial            *)
(* translation) lies on that lattice, and an f32 addition is the exact     *)
(* integer sum rounded to the 24-bit significand, ties to even.  The two   *)
(* zeros of IEEE 754 are identified (they compare equal in Rust).          *)
(***************************************************************************)
EXTENDS Integers, Sequences, FiniteSets

(***************************************************************************)
(* Bounds of the model.                                                    *)
(***************************************************************************)
\* number of Camera::update calls explored
MaxTicks == 3
\* number of event-loop callbacks explored
MaxCallbacks == 3
\* window widths and heights range over 0..MaxDim
MaxDim == 2
\* number of RenderState calls explored (render_state.rs)
MaxCalls == 3

(***************************************************************************)
(* f32 arithmetic.                                                         *)
(***************************************************************************)
\* significand width of an f32
MantissaBits == 24
\* 1.0f32 in lattice units: 2^26
F32One == 67108864
\* 0.2f32 = 13421773 * 2^-26 (the f32 nearest to 0.2)
Speed02 == 13421773

\* 0.5f32 in lattice units: 2^25
Speed05 == F32One \div 2

Abs(n) == IF n < 0 THEN -n ELSE n

RECURSIVE Pow2(_)
Pow2(k) == IF k = 0 THEN 1 ELSE 2 * Pow2(k - 1)

\* The unit in the last place, in lattice units, of an f32 of magnitude a >= 0.
\* Magnitudes below 2^24 units (0.25) are exact on the lattice.
MantissaLimit == Pow2(MantissaBits)

RECURSIVE Ulp(_)
Ulp(a) == IF a < MantissaLimit THEN 1 ELSE 2 * Ulp(a \div 2)

\* Round the exact value n to the nearest f32, ties to the even significand.
RoundF32(n) ==
    LET a == Abs(n)
        u == Ulp(a)
        q == a \div u
        r == a % u
        up == (2 * r > u) \/ (2 * r = u /\ q % 2 = 1)
        m == (IF up THEN q + 1 ELSE q) * u
    IN  IF n < 0 THEN -m ELSE m

\* f32 addition: the exact sum, rounded.
F32Add(a, b) == RoundF32(a + b)

(***************************************************************************)
(* State.                                                                  *)
(***************************************************************************)
VARIABLES
    \* render_state.rs: RenderState.camera (view isometry, projection, speed)
    camera,
    \* render_state.rs: contents of RenderState.camera_buf (a 4x4 matrix)
    cameraBuf,
    \* history: the camera as created
    camera0,
    \* history: the camera before the latest Camera::update
    camBefore,
    \* history: the keys held during the latest Camera::update
    input,
    \* history: number of Camera::update calls so far
    ticks,
    \* history: per axis, (ticks that moved +speed) - (ticks that moved -speed)
    net,
    \* which snapshot runs: "lib" (lib.rs), "render_state" (render_state.rs)
    \* or "camera" (Camera::update on its own)
    variant,
    \* lib.rs: where run() is: "surface", "adapter", "device", "configure"
    \* (inside RenderState::new), "loop", "exited" or "failed"
    pc,
    \* lib.rs: *control_flow of the event loop: "Poll" or "Exit"
    controlFlow,
    \* RenderState.config: [width, height]
    config,
    \* the size the surface was last configured with
    surface,
    \* history: number of surface.configure calls
    configures,
    \* history: number of request_adapter / request_device calls
    adapterRequests,
    deviceRequests,
    \* what run() returned: "none" (it has not returned) or an error
    runResult,
    \* history: number of event-loop callbacks run
    callbacks,
    \* history: the latest callback: "none", "idle", "close", "frame",
    \* "destroyed"
    cbKind,
    \* history: the operations of the latest callback (lib.rs) or of the
    \* latest RenderState call (render_state.rs), in order
    ops,
    \* history: what the latest render returned ("none": no render)
    result,
    \* history: what the latest render before the latest callback returned
    prevResult,
    \* history: RenderState.config when the latest render was called
    cfgAtRender,
    \* history: what request_adapter (with is_surface_supported) and
    \* request_device gave: "none" (not asked), "ok", or the failure
    adapterOutcome,
    deviceOutcome,
    \* render_state.rs: Instant::now(), in microseconds since creation
    clock,
    \* render_state.rs: RenderState.last_render, .last_title, .fps, .title
    lastRender,
    lastTitle,
    fps,
    title,
    \* history: number of window.set_title calls
    titleWrites,
    \* history: the content of camera_buf read by the latest submitted frame
    frameVP,
    \* history: number of RenderState calls made (render_state.rs)
    calls,
    \* history: the latest RenderState call: "new", "update", "render",
    \* "resize"
    call,
    \* history: the size the latest RenderState::resize call was given
    \* (render_state.rs), or what input.window_resized() gave the latest
    \* callback (lib.rs); [some |-> FALSE]: no resize call, no pending resize
    resizeArg,
    \* history: the RenderState before the latest call (render_state.rs) or
    \* callback (lib.rs)
    rsBefore,
    \* history: what the latest callback was given (lib.rs): what
    \* input.update(&event) returned, input.key_pressed(Escape),
    \* input.close_requested(), input.destroyed(), and *control_flow
    event,
    \* history: RenderState.last_title before the latest call
    \* (render_state.rs)
    titleBefore,
    \* history: the times of the window.set_title calls, in order
    titleTimes

camVars == <<camera, cameraBuf, camera0, camBefore, input, ticks, net>>
loopVars == <<pc, controlFlow, adapterRequests, deviceRequests, runResult,
              callbacks, cbKind, prevResult, adapterOutcome, deviceOutcome>>
timeVars == <<clock, lastRender, lastTitle, fps, title, titleWrites>>
rsVars == <<frameVP, calls, call>>
surfVars == <<config, surface, configures>>
callVars == <<ops, result, cfgAtRender>>
resizeHist == <<resizeArg, rsBefore>>
eventHist == <<event>>
titleHist == <<titleBefore, titleTimes>>
histVars == <<resizeHist, eventHist, titleHist>>
vars == <<camVars, variant, loopVars, surfVars, callVars, timeVars, rsVars,
          histVars>>

(***************************************************************************)
(* camera.rs                                                               *)
(***************************************************************************)
Keys == {"W", "S", "A", "D", "Q", "E"}
Axes == 1..3

\* Rotation matrices (rows of columns).  Identity is what look_at_rh gives
\* for EYE = (0,0,1), target ORIGIN, UP = (0,1,0); RotY90 is a quarter
\* turn, whose entries 0, 1, -1 multiply exactly in f32.
Identity3 == <<<<1, 0, 0>>, <<0, 1, 0>>, <<0, 0, 1>>>>
RotY90 == <<<<0, 0, 1>>, <<0, 1, 0>>, <<-1, 0, 0>>>>
Rotations == {Identity3, RotY90}

\* Rotation * vector (exact: every row has one entry +-1, the others 0).
RotMulVec(R, v) ==
    [a \in Axes |-> R[a][1] * v[1] + R[a][2] * v[2] + R[a][3] * v[3]]

\* nalgebra: Isometry * Translation = (iso.translation + iso.rotation * t,
\* iso.rotation): the right-multiplication, which Camera::update does not use.
IsometryMulTranslation(t, iso) ==
    [rot |-> iso.rot,
     trans |-> [a \in Axes |-> F32Add(iso.trans[a], RotMulVec(iso.rot, t)[a])]]

\* Rotation * rotation.
RotMul(R, Q) ==
    [i \in Axes |-> [j \in Axes |->
        R[i][1] * Q[1][j] + R[i][2] * Q[2][j] + R[i][3] * Q[3][j]]]

\* A product that also turns the view (an isometry with a rotation on the
\* left instead of a pure translation).
TurnMulIsometry(t, iso) ==
    [rot |-> RotMul(RotY90, iso.rot),
     trans |-> [a \in Axes |-> F32Add(t[a], RotMulVec(RotY90, iso.trans)[a])]]

\* nalgebra: Translation * Isometry = (t + iso.translation, iso.rotation).
TranslationMulIsometry(t, iso) ==
    [rot |-> iso.rot,
     trans |-> [a \in Axes |-> F32Add(t[a], iso.trans[a])]]

\* Opposite keys held together cancel.
DisplacementCancelling(first, second, speed, held) ==
    IF first \in held /\ second \in held THEN 0
    ELSE IF first \in held THEN speed
    ELSE IF second \in held THEN -speed
    ELSE 0

\* The second key moves the same way as the first.
DisplacementUnsigned(first, second, speed, held) ==
    IF first \in held THEN speed
    ELSE IF second \in held THEN speed
    ELSE 0

\* if held(first) { speed } else if held(second) { -speed } else { 0.0 }
Displacement(first, second, speed, held) ==
    IF first \in held THEN speed
    ELSE IF second \in held THEN -speed
    ELSE 0

\* The translation vector (x, y, z) Camera::update builds from the held keys.
KeyTranslation(speed, held) ==
    LET z == Displacement("W", "S", speed, held)
        x == Displacement("A", "D", speed, held)
        y == Displacement("Q", "E", speed, held)
    IN  <<x, y, z>>

\* Camera::update
CameraUpdate(cam, held) ==
    [cam EXCEPT !.view =
        TranslationMulIsometry(KeyTranslation(cam.speed, held), cam.view)]

\* Isometry::to_matrix: the homogeneous matrix [R t; 0 0 0 1].
ToMatrix(iso) ==
    [i \in 1..4 |-> [j \in 1..4 |->
        IF i <= 3 /\ j <= 3 THEN iso.rot[i][j]
        ELSE IF i <= 3 THEN iso.trans[i]
        ELSE IF j = 4 THEN 1 ELSE 0]]

\* OPENGL_TO_WGPU_M * proj.as_matrix(): which entries are non-zero, by name.
\* Perspective3 is [m11 0 0 0; 0 m22 0 0; 0 0 m33 m34; 0 0 -1 0]; the
\* left factor keeps rows 1 and 2, halves row 3, and makes row 4 the sum of
\* half row 3 and row 4.
ClipCoeff ==
    <<<<"m11", "0", "0", "0">>,
      <<"0", "m22", "0", "0">>,
      <<"0", "0", "half_m33", "half_m34">>,
      <<"0", "0", "half_m33_minus_1", "half_m34">>>>

\* One f32 product coefficient * value, kept as the uninterpreted term
\* <<coefficient, projection, value>>; a product with a zero factor is 0 and
\* is dropped from the sum.
Term(proj, i, k, v) ==
    IF ClipCoeff[i][k] = "0" \/ v = 0 THEN << >>
    ELSE << <<ClipCoeff[i][k], proj, v>> >>

\* Camera::proj_view: OPENGL_TO_WGPU_M * proj * view.to_matrix(); entry
\* (i, j) is the sum over k of the terms  coefficient(i, k) * view(k, j).
ProjView(cam) ==
    LET V == ToMatrix(cam.view)
    IN  [i \in 1..4 |-> [j \in 1..4 |->
            Term(cam.proj, i, 1, V[1][j]) \o Term(cam.proj, i, 2, V[2][j])
            \o Term(cam.proj, i, 3, V[3][j]) \o Term(cam.proj, i, 4, V[4][j])]]

(***************************************************************************)
(* Values shared by the snapshots.                                         *)
(***************************************************************************)
Dims == 0..MaxDim
Size(w, h) == [width |-> w, height |-> h]
Sizes == {Size(w, h) : w \in Dims, h \in Dims}
\* window.inner_size() of a window that can be drawn to
WindowSizes == {sz \in Sizes : sz.width # 0 /\ sz.height # 0}
NoSize == Size(0, 0)
\* Option<PhysicalSize<u32>>
OptionalSizes == {[some |-> FALSE]} \cup {[some |-> TRUE, size |-> sz] : sz \in Sizes}

\* wgpu::SurfaceError, and "Ok"
SurfaceErrors == {"Timeout", "Outdated", "Lost", "OutOfMemory"}
RenderResults == {"Ok"} \cup SurfaceErrors

\* The parts of the state a snapshot does not have, at rest.
LoopIdle ==
    /\ pc = "none"
    /\ controlFlow = "Poll"
    /\ adapterRequests = 0
    /\ deviceRequests = 0
    /\ runResult = "none"
    /\ callbacks = 0
    /\ cbKind = "none"
    /\ prevResult = "none"
    /\ adapterOutcome = "none"
    /\ deviceOutcome = "none"

SurfaceIdle ==
    /\ config = NoSize
    /\ surface = NoSize
    /\ configures = 0

CallIdle ==
    /\ ops = << >>
    /\ result = "none"
    /\ cfgAtRender = NoSize

NoFps == << >>
NoTitle == << >>
NoMatrix == << >>

TimeIdle ==
    /\ clock = 0
    /\ lastRender = 0
    /\ lastTitle = 0
    /\ fps = NoFps
    /\ title = NoTitle
    /\ titleWrites = 0

RsIdle ==
    /\ frameVP = NoMatrix
    /\ calls = 0
    /\ call = "none"

NoResize == [some |-> FALSE]

\* What a callback reads of its event: whether input.update(&event)
\* returned true, and the three close conditions.
Events == [updated : BOOLEAN, escape : BOOLEAN, close : BOOLEAN,
           destroyed : BOOLEAN]
NoEvent == [updated |-> FALSE, escape |-> FALSE, close |-> FALSE,
            destroyed |-> FALSE, flow |-> "Poll"]

\* The event with the control flow the callback is entered with.
Given(ev, flow) == [updated |-> ev.updated, escape |-> ev.escape,
                    close |-> ev.close, destroyed |-> ev.destroyed,
                    flow |-> flow]

\* History before the first call or callback.
HistoryInit ==
    /\ resizeArg = NoResize
    /\ rsBefore = [config |-> config, surface |-> surface,
                   configures |-> configures, camera |-> camera]
    /\ event = NoEvent
    /\ titleBefore = lastTitle
    /\ titleTimes = << >>

(***************************************************************************)
(* Camera::update on its own: the camera is one of InputCameras (Camera's  *)
(* fields are public), and each step is one call with any of the 64 sets   *)
(* of held keys.                                                           *)
(***************************************************************************)
\* <<rotation, speed>> of the cameras Camera::update is called on: the one
\* RenderState::new creates, and it turned, at its speed and at another
InputCameras == {<<Identity3, Speed02>>, <<RotY90, Speed02>>, <<RotY90, Speed05>>}
\* -EYE rotated: the translation look_at_rh gives for EYE = (0, 0, 1)
EyeTranslation == <<0, 0, -F32One>>

\* Perspective3::new(aspect, FOVY, ZNEAR, ZFAR), aspect = width / height
Perspective(w, h) == [aspect |-> <<w, h>>, fovy |-> "FOVY",
                      znear |-> "ZNEAR", zfar |-> "ZFAR"]

NoKeys == {}
ZeroVec == <<0, 0, 0>>

CamHistoryInit ==
    /\ cameraBuf = ProjView(camera)
    /\ camera0 = camera
    /\ camBefore = camera
    /\ input = NoKeys
    /\ ticks = 0
    /\ net = ZeroVec

\* The key pair of each axis of the view: x is A/D, y is Q/E, z is W/S.
PairOf == <<[first |-> "A", second |-> "D"],
            [first |-> "Q", second |-> "E"],
            [first |-> "W", second |-> "S"]>>

\* History: the direction the keys `held` move axis a in: 1, -1 or 0.
Moved(a, held) ==
    IF PairOf[a].first \in held THEN 1
    ELSE IF PairOf[a].second \in held THEN -1
    ELSE 0

\* History of one Camera::update with the keys `held`.
CamHistoryStep(held) ==
    /\ camBefore' = camera
    /\ input' = held
    /\ ticks' = ticks + 1
    /\ net' = [a \in Axes |-> net[a] + Moved(a, held)]

InitCam ==
    /\ variant = "camera"
    /\ LoopIdle
    /\ SurfaceIdle
    /\ CallIdle
    /\ TimeIdle
    /\ RsIdle
    /\ \E rs \in InputCameras :
          camera = [view |-> [rot |-> rs[1], trans |-> EyeTranslation],
                    proj |-> Perspective(1, 1), speed |-> rs[2]]
    /\ CamHistoryInit
    /\ HistoryInit

CamTick ==
    /\ ticks < MaxTicks
    /\ \E held \in SUBSET Keys :
          /\ camera' = CameraUpdate(camera, held)
          /\ CamHistoryStep(held)
    /\ UNCHANGED <<cameraBuf, camera0, variant, loopVars, surfVars, callVars,
                   timeVars, rsVars, histVars>>

NextCam == CamTick

SpecCam == InitCam /\ [][NextCam]_vars

(***************************************************************************)
(* RenderState: resize, size and render (lib.rs and render_state.rs hold   *)
(* the same code for resize and size).                                     *)
(***************************************************************************)
\* The RenderState as a value: the fields resize, size and render name,
\* and the camera.
SurfaceState == [config |-> config, surface |-> surface,
                 configures |-> configures, camera |-> camera]

\* A resize that returns when either dimension is 0.
ResizeSkipsAnyZero(rs, size) ==
    IF size.width = 0 \/ size.height = 0
    THEN rs
    ELSE [rs EXCEPT !.config = Size(size.width, size.height),
                    !.surface = Size(size.width, size.height),
                    !.configures = @ + 1]

\* A resize that computes the projection again from the size it stores.
ResizeRebuildsProjection(rs, size) ==
    IF size.width = 0 /\ size.height = 0
    THEN rs
    ELSE [rs EXCEPT !.config = Size(size.width, size.height),
                    !.surface = Size(size.width, size.height),
                    !.configures = @ + 1,
                    !.camera.proj = Perspective(size.width, size.height)]

\* RenderState::resize: nothing when width and height are both 0; else the
\* width and height are stored and the surface is configured with the
\* stored config.  No other field is assigned.
Resize(rs, size) ==
    IF size.width = 0 /\ size.height = 0
    THEN rs
    ELSE [rs EXCEPT !.config = Size(size.width, size.height),
                    !.surface = Size(size.width, size.height),
                    !.configures = @ + 1]

\* The operations a resize performs.
ResizeOps(size) ==
    IF size.width = 0 /\ size.height = 0 THEN << >> ELSE <<"configure">>

\* RenderState::size
SizeOf(rs) == Size(rs.config.width, rs.config.height)

\* The GPU operations of a render whose texture was acquired.
FramePath == <<"acquire", "create_view", "create_encoder", "begin_pass",
               "draw", "end_pass", "finish", "submit", "present">>

\* A render that asks for the texture again when the surface timed out.
RenderRetrying(acq) ==
    IF acq = "Ok" THEN [result |-> "Ok", ops |-> FramePath]
    ELSE IF acq = "Timeout"
         THEN [result |-> "Ok", ops |-> <<"acquire">> \o FramePath]
         ELSE [result |-> acq, ops |-> <<"acquire">>]

\* RenderState::render from get_current_texture on; acq is what
\* get_current_texture returns ("Ok" or the SurfaceError).  The `?`
\* returns the error at once.
Render(acq) ==
    IF acq = "Ok" THEN [result |-> "Ok", ops |-> FramePath]
    ELSE [result |-> acq, ops |-> <<"acquire">>]

(***************************************************************************)
(* lib.rs: run().                                                          *)
(***************************************************************************)
\* The camera fields of a snapshot without a camera keep one value.
NewCamera(sz) ==
    [view |-> [rot |-> Identity3, trans |-> EyeTranslation],
     proj |-> Perspective(sz.width, sz.height), speed |-> Speed02]

InitLib ==
    /\ variant = "lib"
    /\ pc = "surface"
    /\ controlFlow = "Poll"
    /\ adapterRequests = 0
    /\ deviceRequests = 0
    /\ runResult = "none"
    /\ callbacks = 0
    /\ cbKind = "none"
    /\ prevResult = "none"
    /\ adapterOutcome = "none"
    /\ deviceOutcome = "none"
    /\ SurfaceIdle
    /\ CallIdle
    /\ TimeIdle
    /\ RsIdle
    /\ camera = NewCamera(Size(1, 1))
    /\ CamHistoryInit
    /\ HistoryInit

\* `?` / bail! in RenderState::new, then `?` in run: run returns the error.
StartupFails(err) ==
    /\ pc' = "failed"
    /\ runResult' = err

\* instance.create_surface(&window)?
CreateSurface ==
    /\ variant = "lib"
    /\ pc = "surface"
    /\ \E ok \in BOOLEAN :
          IF ok THEN pc' = "adapter" /\ runResult' = runResult
          ELSE StartupFails("create_surface")
    /\ UNCHANGED <<controlFlow, adapterRequests, deviceRequests, callbacks,
                   cbKind, prevResult, adapterOutcome, deviceOutcome>>
    /\ UNCHANGED <<camVars, variant, surfVars, callVars, timeVars, rsVars,
                   histVars>>

AdapterOutcomes == {"ok", "no_adapter", "surface_unsupported"}

\* An adapter that does not support the surface is used all the same.
AdapterUsableNoBail(outcome) == outcome # "no_adapter"

\* request_adapter(..).await.ok_or(..)? and the is_surface_supported bail!
AdapterUsable(outcome) == outcome = "ok"

RequestAdapter ==
    /\ variant = "lib"
    /\ pc = "adapter"
    /\ adapterRequests' = adapterRequests + 1
    /\ \E outcome \in AdapterOutcomes :
          /\ adapterOutcome' = outcome
          /\ IF AdapterUsable(outcome)
             THEN pc' = "device" /\ runResult' = runResult
             ELSE StartupFails(outcome)
    /\ UNCHANGED <<controlFlow, deviceRequests, callbacks, cbKind,
                   prevResult, deviceOutcome>>
    /\ UNCHANGED <<camVars, variant, surfVars, callVars, timeVars, rsVars,
                   histVars>>

\* adapter.request_device(&desc, None).await.wrap_err(..)?
RequestDevice ==
    /\ variant = "lib"
    /\ pc = "device"
    /\ deviceRequests' = deviceRequests + 1
    /\ \E ok \in BOOLEAN :
          IF ok
          THEN /\ deviceOutcome' = "ok"
               /\ pc' = "configure"
               /\ runResult' = runResult
          ELSE /\ deviceOutcome' = "no_device"
               /\ StartupFails("no_device")
    /\ UNCHANGED <<controlFlow, adapterRequests, callbacks, cbKind,
                   prevResult, adapterOutcome>>
    /\ UNCHANGED <<camVars, variant, surfVars, callVars, timeVars, rsVars,
                   histVars>>

\* The rest of RenderState::new (the config from window.inner_size(), the
\* first surface.configure, pipeline and buffers), and run() entering
\* event_loop.run.
EnterLoop ==
    /\ variant = "lib"
    /\ pc = "configure"
    /\ \E sz \in WindowSizes :
          /\ config' = sz
          /\ surface' = sz
    /\ configures' = configures + 1
    /\ pc' = "loop"
    /\ UNCHANGED <<controlFlow, adapterRequests, deviceRequests, runResult,
                   callbacks, cbKind, prevResult, adapterOutcome,
                   deviceOutcome>>
    /\ UNCHANGED <<camVars, variant, callVars, timeVars, rsVars, histVars>>

\* The event loop calls the closure while it runs and has not been told to
\* exit.
LoopRuns ==
    /\ variant = "lib"
    /\ pc = "loop"
    /\ controlFlow = "Poll"
    /\ callbacks < MaxCallbacks

\* History: the latest render result once the next callback starts.
LatestRenderResult == IF result # "none" THEN result ELSE prevResult

\* A close check that does not ask whether the window was destroyed.
CloseRequestedNoDestroyed(ev) == ev.escape \/ ev.close

\* input.key_pressed(VirtualKeyCode::Escape) || input.close_requested()
\* || input.destroyed()
CloseRequested(ev) == ev.escape \/ ev.close \/ ev.destroyed

\* if !input.update(&event) { return; }
CallbackIdle ==
    /\ LoopRuns
    /\ \E ev \in Events :
          /\ ~ev.updated
          /\ event' = Given(ev, controlFlow)
    /\ callbacks' = callbacks + 1
    /\ cbKind' = "idle"
    /\ ops' = << >>
    /\ result' = "none"
    /\ prevResult' = LatestRenderResult
    /\ UNCHANGED <<pc, controlFlow, adapterRequests, deviceRequests,
                   runResult, adapterOutcome, deviceOutcome>>
    /\ resizeArg' = NoResize
    /\ rsBefore' = SurfaceState
    /\ UNCHANGED <<camVars, variant, surfVars, cfgAtRender, timeVars, rsVars,
                   titleHist>>

\* Escape pressed, close requested or window destroyed:
\* *control_flow = ControlFlow::Exit; return;
CallbackClose ==
    /\ LoopRuns
    /\ \E ev \in Events :
          /\ ev.updated
          /\ CloseRequested(ev)
          /\ event' = Given(ev, controlFlow)
    /\ callbacks' = callbacks + 1
    /\ cbKind' = "close"
    /\ controlFlow' = "Exit"
    /\ ops' = << >>
    /\ result' = "none"
    /\ prevResult' = LatestRenderResult
    /\ UNCHANGED <<pc, adapterRequests, deviceRequests, runResult, adapterOutcome, deviceOutcome>>
    /\ resizeArg' = NoResize
    /\ rsBefore' = SurfaceState
    /\ UNCHANGED <<camVars, variant, surfVars, cfgAtRender, timeVars, rsVars,
                   titleHist>>

\* An event loop that treats a lost surface as fatal and out-of-memory as
\* recoverable.
MatchArmSwapped(res) ==
    CASE res = "Ok" -> "nothing"
      [] res = "OutOfMemory" -> "reconfigure"
      [] res = "Lost" -> "exit"
      [] OTHER -> "warn"

\* An event loop that only warns about a lost surface.
MatchArmLostWarns(res) ==
    CASE res = "Ok" -> "nothing"
      [] res = "OutOfMemory" -> "exit"
      [] OTHER -> "warn"

\* An event loop that reconfigures on every surface error but out-of-memory.
MatchArmAlwaysReconfigure(res) ==
    CASE res = "Ok" -> "nothing"
      [] res = "OutOfMemory" -> "exit"
      [] OTHER -> "reconfigure"

\* match state.render(&game_state) { Ok, Err(Lost), Err(OutOfMemory), Err(err) }
MatchArm(res) ==
    CASE res = "Ok" -> "nothing"
      [] res = "Lost" -> "reconfigure"
      [] res = "OutOfMemory" -> "exit"
      [] OTHER -> "warn"

\* The operations of a match arm.
ArmOps(arm, rs) ==
    CASE arm = "reconfigure" -> ResizeOps(SizeOf(rs))
      [] arm = "exit" -> <<"log_error">>
      [] arm = "warn" -> <<"log_warn">>
      [] OTHER -> << >>

\* The rest of the closure: the pending resize, game_state.update, render,
\* and the match on its result.  resized is input.window_resized(), acq
\* what get_current_texture returns.
CallbackFrame ==
    /\ LoopRuns
    /\ \E ev \in Events :
          /\ ev.updated
          /\ ~CloseRequested(ev)
          /\ event' = Given(ev, controlFlow)
    /\ \E resized \in OptionalSizes, acq \in RenderResults :
          LET rs1 == IF resized.some THEN Resize(SurfaceState, resized.size)
                     ELSE SurfaceState
              ops1 == IF resized.some THEN ResizeOps(resized.size) ELSE << >>
              r == Render(acq)
              arm == MatchArm(r.result)
              rs2 == IF arm = "reconfigure" THEN Resize(rs1, SizeOf(rs1))
                     ELSE rs1
          IN  /\ cfgAtRender' = rs1.config
              /\ config' = rs2.config
              /\ surface' = rs2.surface
              /\ configures' = rs2.configures
              /\ ops' = ops1 \o <<"gs_update">> \o r.ops \o ArmOps(arm, rs1)
              /\ result' = r.result
              /\ controlFlow' = IF arm = "exit" THEN "Exit" ELSE controlFlow
              /\ resizeArg' = resized
    /\ rsBefore' = SurfaceState
    /\ callbacks' = callbacks + 1
    /\ cbKind' = "frame"
    /\ prevResult' = LatestRenderResult
    /\ UNCHANGED <<pc, adapterRequests, deviceRequests, runResult,
                   adapterOutcome, deviceOutcome>>
    /\ UNCHANGED <<camVars, variant, timeVars, rsVars, titleHist>>

\* With *control_flow = Exit the event loop sends Event::LoopDestroyed, for
\* which input.update returns false, and stops.
LoopDestroyed ==
    /\ variant = "lib"
    /\ pc = "loop"
    /\ controlFlow = "Exit"
    /\ \E ev \in Events :
          /\ ~ev.updated
          /\ event' = Given(ev, controlFlow)
    /\ pc' = "exited"
    /\ callbacks' = callbacks + 1
    /\ cbKind' = "destroyed"
    /\ ops' = << >>
    /\ result' = "none"
    /\ prevResult' = LatestRenderResult
    /\ UNCHANGED <<controlFlow, adapterRequests, deviceRequests, runResult, adapterOutcome, deviceOutcome>>
    /\ resizeArg' = NoResize
    /\ rsBefore' = SurfaceState
    /\ UNCHANGED <<camVars, variant, surfVars, cfgAtRender, timeVars, rsVars,
                   titleHist>>

(***************************************************************************)
(* render_state.rs: RenderState as its owner may call it: any of update,   *)
(* render and resize, in any order, after new.                             *)
(***************************************************************************)
\* (now - self.last_title).as_millis() > 100
TitleIntervalMs == 100
MicrosPerMilli == 1000
\* Duration::as_millis: whole milliseconds, the rest dropped
AsMillis(micros) == micros \div MicrosPerMilli

\* Time that passes before a render reads Instant::now(), in microseconds:
\* none, exactly 100 ms, 100.999 ms and 101 ms.
Dts == {0, 100000, 100999, 101000}

\* The keys held during a RenderState::update: none or one key.
HeldSamples == {h \in SUBSET Keys : Cardinality(h) <= 1}

\* window.inner_size() when RenderState::new runs: a square and a wide window
NewWindowSizes == {Size(1, 1), Size(2, 1)}

\* The sizes RenderState::resize is called with: width 0, 1 or the largest,
\* height 0 or 1 (both zero, one zero, none zero; the stored size or
\* another).
ResizeSizes ==
    {sz \in Sizes : sz.width \in {0, 1, MaxDim} /\ sz.height \in {0, 1}}

InitRs ==
    /\ variant = "render_state"
    /\ LoopIdle
    /\ CallIdle
    /\ \E sz \in NewWindowSizes :
          /\ config = sz
          /\ surface = sz
          /\ camera = NewCamera(sz)
    /\ configures = 1
    /\ CamHistoryInit
    \* last_render: Instant::now(), last_title: Instant::now(): the second
    \* reading is the same instant or a later one
    /\ lastRender = 0
    /\ lastTitle \in {0, 1}
    /\ clock = lastTitle
    /\ fps = NoFps
    /\ title = NoTitle
    /\ titleWrites = 0
    /\ frameVP = NoMatrix
    /\ calls = 0
    /\ call = "new"
    /\ HistoryInit

RsCallable ==
    /\ variant = "render_state"
    /\ calls < MaxCalls

\* An update that uploads the matrix before it moves the camera.
UploadStale(cam, held) == ProjView(cam)

\* RenderState::update, second statement: queue.write_buffer(&camera_buf, 0,
\* proj_view of the camera that camera.update(input) left).
Upload(cam, held) == ProjView(CameraUpdate(cam, held))

\* RenderState::update
RsUpdate ==
    /\ RsCallable
    /\ ticks < MaxTicks
    /\ \E held \in HeldSamples :
          /\ camera' = CameraUpdate(camera, held)
          /\ cameraBuf' = Upload(camera, held)
          /\ CamHistoryStep(held)
    /\ calls' = calls + 1
    /\ call' = "update"
    /\ ops' = <<"camera_update", "write_buffer">>
    /\ resizeArg' = NoResize
    /\ rsBefore' = SurfaceState
    /\ titleBefore' = lastTitle
    /\ UNCHANGED <<eventHist, titleTimes>>
    /\ UNCHANGED <<camera0, variant, loopVars, surfVars, result, cfgAtRender,
                   timeVars, frameVP>>

\* A title that is rewritten as soon as 100 whole milliseconds have passed.
TitleDueAtInterval(now, last) == AsMillis(now - last) >= TitleIntervalMs

\* if (now - self.last_title).as_millis() > 100
TitleDue(now, last) == AsMillis(now - last) > TitleIntervalMs

\* The smoothed fps, as the term it is computed from: the previous value
\* and the elapsed time.
SmoothedFps(prev, elapsed) == <<prev, elapsed>>

\* RenderState::render
RsRender ==
    /\ RsCallable
    /\ \E dt \in Dts, acq \in RenderResults :
          LET now == clock + dt
              newFps == SmoothedFps(fps, now - lastRender)
              retitle == TitleDue(now, lastTitle)
              r == Render(acq)
          IN  /\ clock' = now
              /\ fps' = newFps
              /\ lastRender' = now
              /\ title' = IF retitle THEN <<"FPS", newFps>> ELSE title
              /\ titleWrites' = IF retitle THEN titleWrites + 1 ELSE titleWrites
              /\ lastTitle' = IF retitle THEN now ELSE lastTitle
              /\ ops' = <<"fps">> \o (IF retitle THEN <<"set_title">> ELSE << >>)
                        \o r.ops
              /\ result' = r.result
              /\ frameVP' = IF r.result = "Ok" THEN cameraBuf ELSE frameVP
              /\ titleTimes' = IF retitle THEN Append(titleTimes, now)
                               ELSE titleTimes
    /\ titleBefore' = lastTitle
    /\ cfgAtRender' = config
    /\ calls' = calls + 1
    /\ call' = "render"
    /\ resizeArg' = NoResize
    /\ rsBefore' = SurfaceState
    /\ UNCHANGED eventHist
    /\ UNCHANGED <<camVars, variant, loopVars, surfVars>>

\* RenderState::resize
RsResize ==
    /\ RsCallable
    /\ \E size \in ResizeSizes :
          LET rs == Resize(SurfaceState, size)
          IN  /\ config' = rs.config
              /\ surface' = rs.surface
              /\ configures' = rs.configures
              /\ camera' = rs.camera
              /\ ops' = ResizeOps(size)
              /\ resizeArg' = [some |-> TRUE, size |-> size]
    /\ rsBefore' = SurfaceState
    /\ calls' = calls + 1
    /\ call' = "resize"
    /\ titleBefore' = lastTitle
    /\ UNCHANGED <<eventHist, titleTimes>>
    /\ UNCHANGED <<cameraBuf, camera0, camBefore, input, ticks, net>>
    /\ UNCHANGED <<variant, loopVars, result, cfgAtRender, timeVars, frameVP>>

(***************************************************************************)
(* The two snapshots with a RenderState.                                   *)
(***************************************************************************)
Init == InitLib \/ InitRs

Next ==
    \/ CreateSurface
    \/ RequestAdapter
    \/ RequestDevice
    \/ EnterLoop
    \/ CallbackIdle
    \/ CallbackClose
    \/ CallbackFrame
    \/ LoopDestroyed
    \/ RsUpdate
    \/ RsRender
    \/ RsResize

Spec == Init /\ [][Next]_vars

(***************************************************************************)
(* Properties.                                                             *)
(***************************************************************************)
\* How often the operation op occurs in the log.
Count(log, op) == Cardinality({i \in 1..Len(log) : log[i] = op})

\* The place of the first occurrence of op in the log (0: none).
IndexOf(log, op) ==
    IF Count(log, op) = 0 THEN 0
    ELSE CHOOSE i \in 1..Len(log) :
            /\ log[i] = op
            /\ \A j \in 1..(i - 1) : log[j] # op

\* The operations of the log after the first occurrence of op.
After(log, op) == SubSeq(log, IndexOf(log, op) + 1, Len(log))

\* The latest callback of the lib.rs event loop got to render.
FrameCallback == variant = "lib" /\ cbKind = "frame"

C2_OutOfMemoryExits ==
    /\ []((FrameCallback /\ result = "OutOfMemory") => controlFlow = "Exit")
    /\ [][controlFlow = "Exit" =>
            /\ controlFlow' = "Exit"
            /\ ops' = << >>
            /\ result' = "none"
            /\ UNCHANGED surfVars]_vars

\* C2 witness: the loop has stopped after a render returned OutOfMemory.
C2_Witness ==
    /\ variant = "lib"
    /\ pc = "exited"
    /\ prevResult = "OutOfMemory"
    /\ cbKind = "destroyed"

OtherErrors == SurfaceErrors \ {"Lost", "OutOfMemory"}

\* C3: whenever render returns a surface error other than Lost and
\* OutOfMemory, the callback only logs it: nothing but the warning follows
\* the failed acquisition, the stored configuration and the surface are as
\* they were when render was called, the control flow is not Exit and the
\* loop goes on; and a callback processed after such an error attempts
\* render again.
C3_OtherErrorsLogged ==
    /\ (FrameCallback /\ result \in OtherErrors) =>
          /\ After(ops, "acquire") = <<"log_warn">>
          /\ Count(After(ops, "gs_update"), "configure") = 0
          /\ config = cfgAtRender
          /\ surface = cfgAtRender
          /\ controlFlow = "Poll"
          /\ pc = "loop"
    /\ (FrameCallback /\ prevResult \in OtherErrors) =>
          Count(ops, "acquire") = 1

\* C3 witness: a render after a Timeout, itself returning Outdated.
C3_Witness ==
    /\ FrameCallback
    /\ prevResult = "Timeout"
    /\ result = "Outdated"

\* The latest step was a call of render (either snapshot).
Rendered ==
    \/ FrameCallback
    \/ variant = "render_state" /\ call = "render"

\* C4: every call of render acquires the surface texture exactly once; a
\* call that returns Ok has then created one encoder, recorded one render
\* pass, submitted once and presented once, in that order; a call whose
\* acquisition fails returns that error with no encoder, pass, submit or
\* present.
C4_RenderSinglePath ==
    Rendered =>
        /\ result \in RenderResults
        /\ Count(ops, "acquire") = 1
        /\ result = "Ok" =>
              /\ Count(ops, "create_encoder") = 1
              /\ Count(ops, "begin_pass") = 1
              /\ Count(ops, "submit") = 1
              /\ Count(ops, "present") = 1
              /\ IndexOf(ops, "acquire") < IndexOf(ops, "create_encoder")
              /\ IndexOf(ops, "create_encoder") < IndexOf(ops, "begin_pass")
              /\ IndexOf(ops, "begin_pass") < IndexOf(ops, "submit")
              /\ IndexOf(ops, "submit") < IndexOf(ops, "present")
        /\ result # "Ok" =>
              /\ Count(ops, "create_encoder") = 0
              /\ Count(ops, "begin_pass") = 0
              /\ Count(ops, "submit") = 0
              /\ Count(ops, "present") = 0

\* C4 witness: a render that returned Ok after one whose acquisition timed
\* out.
C4_Witness ==
    /\ FrameCallback
    /\ prevResult = "Timeout"
    /\ result = "Ok"
    /\ Count(ops, "present") = 1

StartupFailures == {"no_adapter", "surface_unsupported", "no_device"}

\* C8: the adapter and the device are each requested at most once, the
\* device only after a usable adapter was got; the event loop runs only
\* after both were got; and when no adapter is returned, the adapter does
\* not support the surface or the device request fails, run has returned
\* that error and no callback, configure or render has happened.
C8_StartupFatal ==
    variant = "lib" =>
        /\ adapterRequests <= 1
        /\ deviceRequests <= 1
        /\ deviceRequests = 1 => (adapterRequests = 1 /\ adapterOutcome = "ok")
        /\ (pc \in {"loop", "exited"} \/ callbacks > 0) =>
              /\ adapterRequests = 1 /\ adapterOutcome = "ok"
              /\ deviceRequests = 1 /\ deviceOutcome = "ok"
        /\ (adapterOutcome \in StartupFailures \/ deviceOutcome \in StartupFailures) =>
              /\ pc = "failed"
              /\ runResult \in {adapterOutcome, deviceOutcome}
              /\ runResult \in StartupFailures
              /\ callbacks = 0
              /\ configures = 0
              /\ ops = << >>
              /\ result = "none"

\* C8 witness: the device request failed after a usable adapter was got.
C8_Witness ==
    /\ variant = "lib"
    /\ adapterOutcome = "ok"
    /\ deviceOutcome = "no_device"
    /\ pc = "failed"

\* The displacement the claim gives for the pair (first, second) of the
\* latest update: +speed when the first key was held, -speed when only the
\* second was, 0 when neither was.
ClaimedDisplacement(first, second) ==
    CASE first \in input -> camBefore.speed
      [] first \notin input /\ second \in input -> -camBefore.speed
      [] OTHER -> 0

\* C5: Camera::update replaces the view by Translation(x, y, z) * view with
\* x from A/D, y from Q/E and z from W/S: the rotation is kept and the f32
\* sum of (x, y, z) and the old translation is the new translation, whatever
\* the rotation of the view.
C5_UpdateTranslates ==
    (variant = "camera" /\ ticks > 0) =>
        /\ camera.view.rot = camBefore.view.rot
        /\ camera.view.trans[1] =
              F32Add(ClaimedDisplacement("A", "D"), camBefore.view.trans[1])
        /\ camera.view.trans[2] =
              F32Add(ClaimedDisplacement("Q", "E"), camBefore.view.trans[2])
        /\ camera.view.trans[3] =
              F32Add(ClaimedDisplacement("W", "S"), camBefore.view.trans[3])

\* C5 witness: an update of a turned view with W, only D, and neither of
\* Q and E held, which moved it.
C5_Witness ==
    /\ variant = "camera"
    /\ ticks > 0
    /\ input = {"W", "D"}
    /\ camBefore.view.rot = RotY90
    /\ camera.view.trans # camBefore.view.trans

Transpose(R) == [i \in Axes |-> [j \in Axes |-> R[j][i]]]

\* C6: after any sequence of Camera::update calls the rotation of the view
\* is the rotation the camera was created with, and it is orthonormal.
C6_TranslationOnly ==
    variant = "camera" =>
        /\ camera.view.rot = camera0.view.rot
        /\ RotMul(camera.view.rot, Transpose(camera.view.rot)) = Identity3

\* C6 witness: a turned view after two updates that moved it on every axis.
C6_Witness ==
    /\ variant = "camera"
    /\ ticks >= 2
    /\ camera0.view.rot = RotY90
    /\ \A a \in Axes : camera.view.trans[a] # camera0.view.trans[a]

\* C7: after RenderState::new and after every call the camera uniform
\* buffer holds proj_view() of the camera; a frame that render submitted
\* read the view-projection of the camera; and render and resize change
\* neither the camera nor the buffer.
C7_BufferFollowsCamera ==
    /\ [](variant = "render_state" =>
            /\ cameraBuf = ProjView(camera)
            /\ (call = "render" /\ result = "Ok") => frameVP = ProjView(camera))
    /\ [][(variant = "render_state" /\ call' \in {"render", "resize"}) =>
            UNCHANGED <<camera, cameraBuf>>]_vars

\* C7 witness: a frame submitted after an update that moved the camera.
C7_Witness ==
    /\ variant = "render_state"
    /\ call = "render"
    /\ result = "Ok"
    /\ camera.view.trans # camera0.view.trans
    /\ frameVP = ProjView(camera)
    /\ frameVP # ProjView(camera0)

\* The keys of the pair of axis a.
PairKeys(a) == {PairOf[a].first, PairOf[a].second}

\* C9: Camera::update gives a camera for every one of the 64 sets of held
\* keys; with both keys of a pair held the axis moves by +speed; and what
\* an axis gets is what it gets with the keys of the other pairs released.
C9_TotalFirstKeyWins ==
    (variant = "camera" /\ ticks > 0) =>
        /\ input \in SUBSET Keys
        /\ camera.view.rot \in Rotations
        /\ \A a \in Axes :
              /\ camera.view.trans[a] \in Int
              /\ PairKeys(a) \subseteq input =>
                    camera.view.trans[a] =
                        F32Add(camBefore.speed, camBefore.view.trans[a])
              /\ camera.view.trans[a] =
                    CameraUpdate(camBefore, input \cap PairKeys(a)).view.trans[a]

\* C9 witness: an update with all six keys held.
C9_Witness ==
    /\ variant = "camera"
    /\ ticks > 0
    /\ input = Keys
    /\ \A a \in Axes : camera.view.trans[a] # camBefore.view.trans[a]

\* The key opposite to k.
Opposite(k) ==
    CASE k = "W" -> "S" [] k = "S" -> "W"
      [] k = "A" -> "D" [] k = "D" -> "A"
      [] k = "Q" -> "E" [] k = "E" -> "Q"

\* Camera::update with k held, then with the opposite key held.
ThereAndBack(cam, k) == CameraUpdate(CameraUpdate(cam, {k}), {Opposite(k)})

\* The parts of C10 that do not rest on exact sums: with no key held the
\* camera is unchanged, and speed, proj and the rotation are never modified.
OnlyTranslationChanges ==
    /\ CameraUpdate(camera, NoKeys) = camera
    /\ input = NoKeys => camera = camBefore
    /\ camera.speed = camera0.speed
    /\ camera.proj = camera0.proj
    /\ camera.view.rot = camera0.view.rot

\* C10 as claimed: besides the above, a tick with one key of a pair held
\* followed by a tick with only the opposite key held restores the view,
\* and two ticks give the same view in either order.
C10_AsClaimed ==
    variant = "camera" =>
        /\ OnlyTranslationChanges
        /\ \A k \in Keys : ThereAndBack(camera, k).view = camera.view
        /\ \A k \in Keys, j \in Keys :
              CameraUpdate(CameraUpdate(camera, {k}), {j}).view =
                  CameraUpdate(CameraUpdate(camera, {j}), {k}).view

\* C10 as amended: the effect composes additively up to f32 rounding.  A
\* tick and the opposite tick bring every coordinate back to within one
\* unit in the last place of the larger magnitude on the way, and after any
\* sequence of ticks every coordinate is within one unit in the last place
\* per tick of the exact, order-independent sum  initial + net * speed.
C10_AdditiveUpToRounding ==
    variant = "camera" =>
        /\ OnlyTranslationChanges
        /\ \A k \in Keys, a \in Axes :
              Abs(ThereAndBack(camera, k).view.trans[a] - camera.view.trans[a])
                  <= Ulp(Abs(camera.view.trans[a]) + camera.speed)
        /\ \A a \in Axes :
              Abs(camera.view.trans[a]
                  - (camera0.view.trans[a] + net[a] * camera.speed))
                  <= ticks * Ulp(Abs(camera0.view.trans[a]) + ticks * camera.speed)

\* C10 witness: a view two ticks along x from which a tick and the opposite
\* tick do not come back exactly.
C10_Witness ==
    /\ variant = "camera"
    /\ ticks = 2
    /\ net[1] = 2
    /\ ThereAndBack(camera, "A").view # camera.view


(***************************************************************************)
(* resize and size.                                                        *)
(***************************************************************************)
\* The latest step was a RenderState::resize call (render_state.rs).
ResizeCalled == variant = "render_state" /\ call = "resize"

\* The latest callback had a pending window resize (lib.rs).
ResizePending == FrameCallback /\ resizeArg.some

ZeroSize == Size(0, 0)

\* How many times a resize with this size configures the surface.
ConfiguresFor(size) == IF size = ZeroSize THEN 0 ELSE 1

\* C11: resize with width = 0 and height = 0 changes neither the stored
\* config nor the surface and does not configure; resize with any other
\* size stores exactly that width and height and configures the surface
\* once.  So size() is always the size the surface was last configured
\* with, and resize(size()) leaves the stored config as it is (also when the
\* event loop recovers from a lost surface).
C11_ResizeStoresAndConfigures ==
    /\ ResizeCalled =>
          /\ resizeArg.some
          /\ IF resizeArg.size = ZeroSize
             THEN /\ config = rsBefore.config
                  /\ surface = rsBefore.surface
                  /\ configures = rsBefore.configures
                  /\ Count(ops, "configure") = 0
             ELSE /\ config.width = resizeArg.size.width
                  /\ config.height = resizeArg.size.height
                  /\ surface = config
                  /\ configures = rsBefore.configures + 1
                  /\ Count(ops, "configure") = 1
    /\ ResizePending =>
          /\ cfgAtRender = IF resizeArg.size = ZeroSize THEN rsBefore.config
                           ELSE resizeArg.size
          /\ configures = rsBefore.configures + ConfiguresFor(resizeArg.size)
                          + (IF result = "Lost" THEN 1 ELSE 0)
    /\ FrameCallback /\ result = "Lost" => config = cfgAtRender
    /\ configures > 0 =>
          /\ SizeOf(SurfaceState) = surface
          /\ Resize(SurfaceState, SizeOf(SurfaceState)).config = config

\* A resize to 0 x 0 that follows a resize to another size.
C11_Witness ==
    /\ ResizeCalled
    /\ resizeArg.size = ZeroSize
    /\ calls = 2
    /\ configures = 2
    /\ <<config.width, config.height>> # camera0.proj.aspect


\* C12: the surface is never configured with a zero dimension: once the
\* surface is configured (new stores a width and height that are both
\* nonzero), the stored config width and height are both nonzero after any
\* sequence of resize calls, direct, from a window-resize event or from the
\* recovery of a lost surface.
C12_NeverZeroDimension ==
    configures > 0 =>
        /\ config.width # 0
        /\ config.height # 0
        /\ surface.width # 0
        /\ surface.height # 0


(***************************************************************************)
(* The event-loop callback.                                                *)
(***************************************************************************)
\* A callback of the running loop has been run (lib.rs).
CallbackRun ==
    variant = "lib" /\ cbKind \in {"idle", "close", "frame", "destroyed"}

\* The callback performed no resize, no game-state update and no render.
NothingDone ==
    /\ ops = << >>
    /\ result = "none"
    /\ SurfaceState = rsBefore

\* The number of operations the pending resize of the latest callback
\* performed.
PendingResizeOps ==
    IF resizeArg.some /\ resizeArg.size # ZeroSize THEN 1 ELSE 0

\* C13: a callback for which input.update(event) returns false does
\* nothing (it leaves the control flow as well); one for which it returns
\* true with Escape pressed, close requested or the window destroyed sets
\* the control flow to Exit and performs no resize, game-state update or
\* render; any other performs the pending resize (if any), then the
\* game-state update, then exactly one render attempt, in this order.
C13_CallbackOrder ==
    CallbackRun =>
        /\ ~event.updated =>
              /\ NothingDone
              /\ controlFlow = event.flow
        /\ event.updated /\ (event.escape \/ event.close \/ event.destroyed) =>
              /\ NothingDone
              /\ controlFlow = "Exit"
        /\ event.updated /\ ~(event.escape \/ event.close \/ event.destroyed) =>
              /\ Len(ops) >= PendingResizeOps + 2
              /\ PendingResizeOps = 1 => ops[1] = "configure"
              /\ ops[PendingResizeOps + 1] = "gs_update"
              /\ ops[PendingResizeOps + 2] = "acquire"
              /\ Count(ops, "gs_update") = 1
              /\ Count(ops, "acquire") = 1
              /\ result # "none"
              /\ resizeArg.some =>
                    cfgAtRender = IF resizeArg.size = ZeroSize
                                  THEN rsBefore.config ELSE resizeArg.size
              /\ ~resizeArg.some => cfgAtRender = rsBefore.config

\* A callback that resized, updated and rendered, for an event where only
\* input.update returned true, after a callback that did nothing.
C13_Witness ==
    /\ CallbackRun
    /\ callbacks = 2
    /\ event.updated
    /\ ~(event.escape \/ event.close \/ event.destroyed)
    /\ PendingResizeOps = 1
    /\ resizeArg.size # rsBefore.config
    /\ result = "Ok"
    /\ prevResult = "none"


(***************************************************************************)
(* resize and the camera.                                                  *)
(***************************************************************************)
\* C14: resize leaves the camera untouched: after a resize the camera
\* (view, speed and projection) is the one before the call, and after any
\* sequence of resizes (and renders) it is the camera as created.  The
\* projection is never assigned after creation, so its aspect ratio stays
\* the one computed from the width and height new configured, whatever
\* width and height the config holds later.
C14_ResizeKeepsCamera ==
    variant = "render_state" =>
        /\ call = "new" =>
              camera.proj = Perspective(config.width, config.height)
        /\ ResizeCalled =>
              /\ camera.view = rsBefore.camera.view
              /\ camera.speed = rsBefore.camera.speed
              /\ camera.proj = rsBefore.camera.proj
        /\ ticks = 0 => camera = camera0
        /\ camera.proj = camera0.proj
        /\ camera.speed = camera0.speed

\* Two resizes after which the config holds another width and height than
\* the projection was computed from.
C14_Witness ==
    /\ ResizeCalled
    /\ calls = 2
    /\ configures = 3
    /\ <<config.width, config.height>> # camera.proj.aspect
    /\ config.width # 0
    /\ config.height # 0
    /\ config.width # config.height


(***************************************************************************)
(* The frame-time bookkeeping of render.                                   *)
(***************************************************************************)
\* The latest step was a RenderState::render call (render_state.rs).
RenderCalled == variant = "render_state" /\ call = "render"

\* The latest call rewrote the window title.
TitleRewritten == Count(ops, "set_title") > 0

\* 100 ms, in the unit of the clock.
TitleIntervalMicros == TitleIntervalMs * MicrosPerMilli

\* C15: render does its frame-time bookkeeping before it acquires the
\* surface texture: last_render is the current time after every render
\* call, also one that fails with a surface error.  The title is rewritten
\* only when strictly more than 100 ms have passed since last_title, and
\* last_title becomes the current time exactly when the title is rewritten,
\* so any two title rewrites are more than 100 ms apart.
C15_BookkeepingBeforeAcquire ==
    /\ RenderCalled =>
          /\ ops[1] = "fps"
          /\ Count(ops, "fps") = 1
          /\ Count(ops, "acquire") = 1
          /\ Count(ops, "set_title") <= 1
          /\ IndexOf(ops, "fps") < IndexOf(ops, "acquire")
          /\ IndexOf(ops, "set_title") < IndexOf(ops, "acquire")
          /\ lastRender = clock
          /\ TitleRewritten =>
                /\ clock - titleBefore > TitleIntervalMicros
                /\ lastTitle = clock
                /\ titleTimes[Len(titleTimes)] = clock
          /\ ~TitleRewritten => lastTitle = titleBefore
    /\ variant = "render_state" =>
          /\ Len(titleTimes) = titleWrites
          /\ \A i, j \in 1..Len(titleTimes) :
                i < j => titleTimes[j] - titleTimes[i] > TitleIntervalMicros
          /\ call # "render" => lastTitle = titleBefore

\* A second title rewrite, in a render that then fails with a surface
\* error.
C15_Witness ==
    /\ RenderCalled
    /\ TitleRewritten
    /\ titleWrites = 2
    /\ result \in SurfaceErrors

====
